---- MODULE Spec2Model ----
(***************************************************************************)
(* Model of the fast-fuzzy mapping lookup service:                         *)
(*   - FuzzyIndex.encode_string and ngrams          (src/fuzzy_index.py)   *)
(*   - FuzzyIndex, build_index, create_indexes      (src/fuzzy_index.py)   *)
(*   - MappingLookupSearch.split_shards             (src/search_index.py)  *)
(*   - MappingLookupSearch.load_artist and .search  (src/search_index.py)  *)
(*   - mapping_lookup_process, the shard worker     (src/search_process.py)*)
(*                                                                         *)
(* Texts are sequences of one-character strings.  Confidences are integers *)
(* in hundredths (1.0 is 100, .5 is 50); the similarity model only yields  *)
(* even values, so the arithmetic mean (a + b) / 2 is exact.               *)
(***************************************************************************)
EXTENDS Integers, Sequences, FiniteSets, TLC

\* ------------------------------------------------------------------ bounds
NumWorkers  == 2      \* worker processes sharing in_q and out_d
MaxRequests == 2      \* ordinary requests a caller puts on in_q
MaxExits    == 1      \* exit messages a caller puts on in_q
MaxArtists  == 4      \* artists of a shard histogram
MaxShards   == 3      \* num_shards of a shard plan
MaxRows     == 4      \* data rows of the csv file of create_indexes

\* --------------------------------------------------------- program constants
RELEASE_CONFIDENCE   == 50    \* .5
RECORDING_CONFIDENCE == 50    \* .5
TOP_N                == 3     \* the [:3] slices of search
KNN_K                == 3     \* k of the nearest-neighbour query
NGRAM_N              == 3     \* n of ngrams
CHUNK_SIZE           == 2     \* rows per batch of create_indexes: 100000, scaled down

\* Python's None, as a text value (no text contains the token "None").
None == <<"None">>

\* ------------------------------------------------------------ encode_string
\* The alphabet of the model.  "e^" stands for a letter with a diacritic
\* (U+00E9) and "zh" for a CJK ideograph (U+5317): both are matched by \w.
Punctuation == {"!", "'"}
Whitespace  == {" "}

\* re.sub(r'[^\w ]+', '', text): drop what is neither a word character nor a space
StripNonWord(text) == SelectSeq(text, LAMBDA c : c \notin Punctuation)

\* re.sub(" +", "", ...): drop every space
RemoveSpaces(text) == SelectSeq(text, LAMBDA c : c # " ")

\* str.strip(): drop leading and trailing whitespace
RECURSIVE LStrip(_)
LStrip(text) ==
    IF text # <<>> /\ Head(text) \in Whitespace THEN LStrip(Tail(text)) ELSE text

RECURSIVE RStrip(_)
RStrip(text) ==
    IF text # <<>> /\ text[Len(text)] \in Whitespace
    THEN RStrip(SubSeq(text, 1, Len(text) - 1))
    ELSE text

Strip(text) == RStrip(LStrip(text))

\* str.lower(), one character
LowerChar(c) ==
    CASE c = "W" -> "w"
      [] c = "A" -> "a"
      [] c = "B" -> "b"
      [] c = "C" -> "c"
      [] OTHER   -> c

Lower(text) == [i \in 1..Len(text) |-> LowerChar(text[i])]

\* unidecode(), one character: ASCII is kept, anything else is replaced by its
\* ASCII transliteration (an ideograph becomes a capitalised syllable and a space)
UnidecodeChar(c) ==
    CASE c = "e^" -> <<"e">>
      [] c = "zh" -> <<"B", "e", "i", " ">>
      [] OTHER    -> <<c>>

RECURSIVE Unidecode(_)
Unidecode(text) ==
    IF text = <<>> THEN <<>> ELSE UnidecodeChar(Head(text)) \o Unidecode(Tail(text))

encode_string(text) ==
    IF text = None
    THEN None
    ELSE Unidecode(Lower(Strip(RemoveSpaces(StripNonWord(text)))))

\* "if encoded:"
Truthy(text) == text # None /\ text # <<>>

\* ------------------------------------------------------------------- ngrams
\* the padded string's windows of length n, in order
ngrams(string) ==
    LET padded == <<" ">> \o string \o <<" ">>
    IN  [i \in 1..(Len(padded) - (NGRAM_N - 1)) |-> SubSeq(padded, i, i + NGRAM_N - 1)]

Range(s) == {s[i] : i \in DOMAIN s}

\* --------------------------------------------------------------- FuzzyIndex
\* Similarity of a query and an indexed text, in hundredths: twice the share of
\* common trigrams (a Dice coefficient), always even, 100 for equal texts with a
\* trigram, 0 for texts without a common trigram.
Confidence(query, text) ==
    LET q     == Range(ngrams(query))
        t     == Range(ngrams(text))
        total == Cardinality(q) + Cardinality(t)
    IN  IF total = 0 THEN 0 ELSE 2 * ((100 * Cardinality(q \cap t)) \div total)

\* FuzzyIndex(): constructed, not built
FuzzyIndex == [built |-> FALSE, points |-> <<>>]

\* build(index_data, "text"): one data point per item, keyed by the item's id
build(index_data) ==
    [built  |-> TRUE,
     points |-> [i \in 1..Len(index_data) |->
                    [text |-> index_data[i].text, id |-> index_data[i].id]]]

\* the neighbours by descending similarity; equal similarities keep build order
RECURSIVE NearestInsert(_, _)
NearestInsert(x, s) ==
    IF s = <<>> THEN <<x>>
    ELSE IF x.confidence > Head(s).confidence
         THEN <<x>> \o s
         ELSE <<Head(s)>> \o NearestInsert(x, Tail(s))

RECURSIVE Nearest(_)
Nearest(s) ==
    IF s = <<>> THEN <<>>
    ELSE NearestInsert(s[Len(s)], Nearest(SubSeq(s, 1, Len(s) - 1)))

FirstN(s, n) == SubSeq(s, 1, IF Len(s) < n THEN Len(s) ELSE n)

\* search(query_string, min_confidence): the k nearest data points, those under
\* min_confidence dropped
FuzzyIndex_search(index, query_string, min_confidence) ==
    IF ~index.built THEN <<>>
    ELSE LET scored == [i \in 1..Len(index.points) |->
                          [confidence |-> Confidence(query_string, index.points[i].text),
                           id         |-> index.points[i].id,
                           text       |-> index.points[i].text]]
         IN  SelectSeq(FirstN(Nearest(scored), KNN_K),
                       LAMBDA r : r.confidence >= min_confidence)

\* ------------------------------------------ FuzzyIndex of src/fuzzy_index.py
\* FuzzyIndex.__init__: vectorizer and index are None, written <<>>
fuzzy_index_init(nmslib) ==
    [have_nmslib |-> nmslib, vectorizer |-> <<>>, index |-> <<>>]

\* the vocabulary TfidfVectorizer(analyzer=ngrams) fits: every trigram of a string
vocabulary(lookup_strings) ==
    UNION {Range(ngrams(lookup_strings[i])) : i \in 1..Len(lookup_strings)}

\* FuzzyIndex.build(search_data), search_data a list of (value, lookup_id)
fuzzy_index_build(self, search_data) ==
    IF ~self.have_nmslib
    THEN self
    ELSE [self EXCEPT
            !.vectorizer = <<vocabulary([i \in 1..Len(search_data) |-> search_data[i][1]])>>,
            !.index      = <<[i \in 1..Len(search_data) |->
                                [text |-> search_data[i][1], id |-> search_data[i][2]]]>>]

\* math.fabs
fabs(x) == IF x < 0 THEN -x ELSE x

\* index.knnQueryBatch(query_matrix, k=3): the k nearest data points with their
\* distances, the negated similarity (space negdotprod_sparse_fast)
knnQueryBatch(points, query_string, k) ==
    LET scored == [i \in 1..Len(points) |->
                     [confidence |-> Confidence(query_string, points[i].text),
                      id         |-> points[i].id]]
        hits   == FirstN(Nearest(scored), k)
    IN  [i \in 1..Len(hits) |-> <<hits[i].id, -hits[i].confidence>>]

\* the output list of lines 95-99
search_output(results, query_string) ==
    [i \in 1..Len(results) |->
        [confidence |-> fabs(results[i][2]), id |-> results[i][1], text |-> query_string]]

\* the outcome of a call: returned with an output list, or raised
Returns(output) == [raised |-> "", output |-> output]
Raises(error)   == [raised |-> error, output |-> <<>>]

\* FuzzyIndex.search(query_string, **kwargs).  The method takes query_string
\* only: any keyword argument is a TypeError.  vectorizer is None until build
\* has run, and None has no transform.
fuzzy_index_search(self, query_string, kwargs) ==
    IF DOMAIN kwargs # {}
    THEN Raises("TypeError")
    ELSE IF ~self.have_nmslib
    THEN Returns(<<>>)
    ELSE IF self.vectorizer = <<>>
    THEN Raises("AttributeError")
    ELSE Returns(search_output(knnQueryBatch(self.index[1], query_string, KNN_K),
                               query_string))

\* ---------------------------------------------- build_index, create_indexes
\* TfidfVectorizer.fit_transform raises ValueError on an empty vocabulary
build_raises(self, search_data) ==
    self.have_nmslib /\ vocabulary([i \in 1..Len(search_data) |-> search_data[i][1]]) = {}

\* lines 106-110 for one (artist_credit_id, recording_data) of the batch: an
\* artist without recording data gets no index
index_of_artist(nmslib, item) ==
    IF Len(item[2]) > 0
    THEN << <<item[1], fuzzy_index_build(fuzzy_index_init(nmslib), item[2])>> >>
    ELSE <<>>

RECURSIVE build_index_from(_, _, _)
build_index_from(nmslib, thread_data, k) ==
    IF k > Len(thread_data) THEN <<>>
    ELSE index_of_artist(nmslib, thread_data[k]) \o build_index_from(nmslib, thread_data, k + 1)

\* build_index(thread_data): the list of (artist_credit_id, recording_index)
build_index(nmslib, thread_data) == build_index_from(nmslib, thread_data, 1)

\* lines 151-155: the artist changed, the finished artist joins thread_data
artist_changed(last_artist_credit_id, row) ==
    0 <= last_artist_credit_id /\ last_artist_credit_id # row.artist_credit_id

\* lines 157-159: recording_data.append((encoded, row["id"])) if encoded
with_recording(recording_data, row) ==
    IF Truthy(encode_string(row.recording_name))
    THEN Append(recording_data, <<encode_string(row.recording_name), row.id>>)
    ELSE recording_data

\* line 163: a batch is submitted after this row
chunk_full(i) == i # 0 /\ i % CHUNK_SIZE = 0

\* thread_data after executor.submit, the reset of line 166 left out
after_submit_kept(thread_data) == thread_data

\* line 166: thread_data = []
after_submit(thread_data) == <<>>

\* lines 170-171: self.recording_indexes[ac_id] = index for the results in turn
RECURSIVE merge_results(_, _)
merge_results(recording_indexes, results) ==
    IF results = <<>> THEN recording_indexes
    ELSE merge_results((Head(results)[1] :> Head(results)[2]) @@
                           [a \in DOMAIN recording_indexes \ {Head(results)[1]} |->
                               recording_indexes[a]],
                       Tail(results))

\* ---------------------------------------------------------------- row store
\* Names as they are stored and as callers send them.
War   == <<"W", "a", "r">>
WarX  == <<"w", "a", "r", "!">>
W_ar  == <<"W", " ", "a", "r">>
Wars  == <<"W", "a", "r", "s">>
Warm  == <<"W", "a", "r", "m">>
Arm   == <<"a", "r", "m">>
Xyz   == <<"x", "y", "z">>
Bang  == <<"!", "!">>
Wa    == <<"w", "a">>
Cafe    == <<"C", "a", "f", "e^">>
Beijing == <<"zh", "j", "i", "n", "g">>      \* an ideograph first
Pinyin  == <<"j", "i", "n", "g", "zh">>      \* an ideograph last

Row(ac, rec, rel, rec_name, rel_name, sc) ==
    [artist_credit_id |-> ac, recording_id |-> rec, release_id |-> rel,
     recording_name |-> rec_name, release_name |-> rel_name, score |-> sc]

\* The Mapping table.  Artist 1 has two recording groups (one of three rows) and
\* two release groups; artist 2 has one of each; artist 3 has rows but no
\* release name that survives encode_string; artist 4 has no row.
Mapping ==
    << Row(1, 11, 101, War,  War,  2),
       Row(1, 12, 102, WarX, Wars, 1),
       Row(1, 13, 101, Wars, War,  3),
       Row(1, 14, 103, W_ar, Bang, 1),
       Row(2, 21, 201, Warm, Warm, 1),
       Row(3, 31, 301, War,  Bang, 1) >>

\* Mapping.select().where(Mapping.artist_credit_id == artist_credit_id)
Mapping_select(artist_credit_id) ==
    SelectSeq(Mapping, LAMBDA row : row.artist_credit_id = artist_credit_id)

\* ------------------------------------------------------------- split_shards
\* A histogram is a dict artist_credit_id -> row_count: the list of its
\* (artist_credit_id, row_count) items in insertion order, the keys distinct.

\* the order of the planner's sort: row_count descending, a tie broken by
\* artist_credit_id
HeavierFirst(a, b) == a[2] > b[2] \/ (a[2] = b[2] /\ a[1] < b[1])

RECURSIVE by_row_count_insert(_, _)
by_row_count_insert(x, s) ==
    IF s = <<>> THEN <<x>>
    ELSE IF HeavierFirst(x, Head(s))
         THEN <<x>> \o s
         ELSE <<Head(s)>> \o by_row_count_insert(x, Tail(s))

RECURSIVE by_row_count(_)
by_row_count(items) ==
    IF items = <<>> THEN <<>>
    ELSE by_row_count_insert(items[Len(items)],
                             by_row_count(SubSeq(items, 1, Len(items) - 1)))

\* the shard with the smallest accumulated row_count, the first of them
lightest(bins) ==
    CHOOSE s \in 1..Len(bins) :
        \A t \in 1..Len(bins) :
            bins[s].total < bins[t].total \/ (bins[s].total = bins[t].total /\ s <= t)

\* each item in turn goes to the shard that is lightest at that moment
RECURSIVE fill(_, _)
fill(items, bins) ==
    IF items = <<>> THEN bins
    ELSE fill(Tail(items),
              [bins EXCEPT ![lightest(bins)] =
                  [keys  |-> Append(@.keys, Head(items)[1]),
                   total |-> @.total + Head(items)[2]]])

\* the items in the dict's own order, the sort left out
largest_first_unsorted(histogram) == histogram

\* the artists sorted by row_count descending
largest_first(histogram) == by_row_count(histogram)

\* split_dict_evenly(histogram, n): n lists of keys, of row counts as even as
\* the greedy largest-first assignment makes them
split_dict_evenly(histogram, n) ==
    LET bins == fill(largest_first(histogram), [s \in 1..n |-> [keys |-> <<>>, total |-> 0]])
    IN  [s \in 1..n |-> bins[s].keys]

\* enumerate(split_hist), counting from 1
enumerate_from_1(split_hist) == [i \in 1..Len(split_hist) |-> <<i, split_hist[i]>>]

\* enumerate(split_hist): (0, pairs0), (1, pairs1), ...
enumerate(split_hist) == [i \in 1..Len(split_hist) |-> <<i - 1, split_hist[i]>>]

\* lines 49-52: self.shards[ch] = shard for every ch of every list; a key set
\* twice keeps the later shard
shards_of(numbered) ==
    [ch \in UNION {Range(numbered[i][2]) : i \in 1..Len(numbered)} |->
        LET last == CHOOSE i \in 1..Len(numbered) :
                        /\ ch \in Range(numbered[i][2])
                        /\ \A j \in 1..Len(numbered) : ch \in Range(numbered[j][2]) => j <= i
        IN  numbered[last][1]]

\* MappingLookupSearch.split_shards, as a function of its two inputs
split_shards(histogram, num_shards) ==
    shards_of(enumerate(split_dict_evenly(histogram, num_shards)))

\* -------------------------------------------------------------- load_artist
\* the keys of a dict filled in this order: distinct, by first occurrence
RECURSIVE Keys(_)
Keys(texts) ==
    IF texts = <<>> THEN <<>>
    ELSE LET rest == Keys(SubSeq(texts, 1, Len(texts) - 1))
             last == texts[Len(texts)]
         IN  IF last \in Range(rest) THEN rest ELSE Append(rest, last)

\* recording_ref, then recording_data: one group per encoded recording name
recording_data_of(rows) ==
    LET keys == Keys([i \in 1..Len(rows) |-> encode_string(rows[i].recording_name)])
        Group(text) ==
            LET sel == SelectSeq(rows, LAMBDA row : encode_string(row.recording_name) = text)
            IN  [j \in 1..Len(sel) |-> [id         |-> sel[j].recording_id,
                                        release_id |-> sel[j].release_id,
                                        score      |-> sel[j].score]]
    IN  [i \in 1..Len(keys) |->
            [text |-> keys[i], id |-> i - 1, recording_data |-> Group(keys[i])]]

\* recording_releases filled only for the rows that have a release name
recording_releases_of_named(rows) ==
    [rid \in {rows[i].recording_id :
                i \in {i \in 1..Len(rows) : Truthy(encode_string(rows[i].release_name))}} |->
        LET sel == SelectSeq(rows, LAMBDA row : row.recording_id = rid)
        IN  [j \in 1..Len(sel) |-> sel[j].release_id]]

\* recording_releases: recording_id -> the release_ids of its rows
recording_releases_of(rows) ==
    [rid \in {rows[i].recording_id : i \in 1..Len(rows)} |->
        LET sel == SelectSeq(rows, LAMBDA row : row.recording_id = rid)
        IN  [j \in 1..Len(sel) |-> sel[j].release_id]]

\* release_data, release_ref, then release_data again: one group per encoded
\* release name, rows whose encoded release name is empty left out
release_data_of(rows) ==
    LET kept == SelectSeq(rows, LAMBDA row : Truthy(encode_string(row.release_name)))
        keys == Keys([i \in 1..Len(kept) |-> encode_string(kept[i].release_name)])
        Group(text) ==
            LET sel == SelectSeq(kept, LAMBDA row : encode_string(row.release_name) = text)
            IN  [j \in 1..Len(sel) |-> <<sel[j].release_id, sel[j].score>>]
    IN  [i \in 1..Len(keys) |->
            [text |-> keys[i], id |-> i - 1, release_id_scores |-> Group(keys[i])]]

\* What load_artist does with the cache when the rows gave no recording group
\* or no release group (lines 114 and 120): nothing is stored.
store_none(data, artist_credit_id) == data

\* lines 122-131: the entry is stored and returned
store_entry(data, artist_credit_id, entry) ==
    [ret         |-> <<entry>>,
     artist_data |-> (artist_credit_id :> entry) @@ data,
     reads       |-> 1]

\* lines 110-120 without the test of release_data
index_groups_any_release(data, artist_credit_id, rows, recording_data, release_data) ==
    IF recording_data = <<>>
    THEN [ret         |-> <<>>,
          artist_data |-> store_none(data, artist_credit_id),
          reads       |-> 1]
    ELSE store_entry(data, artist_credit_id,
            [recording_index    |-> build(recording_data),
             recording_data     |-> recording_data,
             release_index      |-> build(release_data),
             recording_releases |-> recording_releases_of(rows),
             release_data       |-> release_data])

\* lines 110-120: the two indexes are built, unless a group list is empty
index_groups(data, artist_credit_id, rows, recording_data, release_data) ==
    IF recording_data = <<>> \/ release_data = <<>>
    THEN [ret         |-> <<>>,
          artist_data |-> store_none(data, artist_credit_id),
          reads       |-> 1]
    ELSE store_entry(data, artist_credit_id,
            [recording_index    |-> build(recording_data),
             recording_data     |-> recording_data,
             release_index      |-> build(release_data),
             recording_releases |-> recording_releases_of(rows),
             release_data       |-> release_data])

\* lines 63-103: the rows are grouped
group_rows(data, artist_credit_id, rows) ==
    index_groups(data, artist_credit_id, rows,
                 recording_data_of(rows), release_data_of(rows))

\* load_artist without the lookup of lines 58-61: the rows are read again
load_artist_reload(data, artist_credit_id) ==
    group_rows(data, artist_credit_id, Mapping_select(artist_credit_id))

\* load_artist(artist_credit_id) on the cache `data`.  ret is <<>> for None and
\* <<entry>> otherwise; reads is the number of row-store queries made.
load_artist(data, artist_credit_id) ==
    IF artist_credit_id \in DOMAIN data
    THEN [ret |-> <<data[artist_credit_id]>>, artist_data |-> data, reads |-> 0]
    ELSE group_rows(data, artist_credit_id, Mapping_select(artist_credit_id))

\* ------------------------------------------------------------------- search
\* the sort key with the score negated: (-r["confidence"], -r["score"])
KeyBefore_score_descending(a, b) ==
    \/ a.confidence > b.confidence
    \/ a.confidence = b.confidence /\ a.score > b.score

\* sorted(exp_results, key=lambda r: (-r["confidence"], r["score"])): whether a
\* sorts strictly before b
KeyBefore(a, b) ==
    \/ a.confidence > b.confidence
    \/ a.confidence = b.confidence /\ a.score < b.score

\* Python's sorted is stable: x, which came after every element of s, goes
\* before the first element it sorts strictly before
RECURSIVE sorted_insert(_, _)
sorted_insert(x, s) ==
    IF s = <<>> THEN <<x>>
    ELSE IF KeyBefore(x, Head(s))
         THEN <<x>> \o s
         ELSE <<Head(s)>> \o sorted_insert(x, Tail(s))

RECURSIVE sorted(_)
sorted(s) ==
    IF s = <<>> THEN <<>>
    ELSE sorted_insert(s[Len(s)], sorted(SubSeq(s, 1, Len(s) - 1)))

RECURSIVE Flatten(_)
Flatten(ss) == IF ss = <<>> THEN <<>> ELSE Head(ss) \o Flatten(Tail(ss))

\* lines 156-164: every index hit becomes one candidate per row of its group
expand_recordings(entry, rec_results) ==
    Flatten([i \in 1..Len(rec_results) |->
        LET result == rec_results[i]
            data   == entry.recording_data[result.id + 1]
        IN  [j \in 1..Len(data.recording_data) |->
                [text       |-> result.text,
                 confidence |-> result.confidence,
                 id         |-> data.recording_data[j].id,
                 score      |-> data.recording_data[j].score,
                 release_id |-> data.recording_data[j].release_id]]])

\* lines 185-192
expand_releases(entry, rel_results) ==
    Flatten([i \in 1..Len(rel_results) |->
        LET result == rel_results[i]
            data   == entry.release_data[result.id + 1]
        IN  [j \in 1..Len(data.release_id_scores) |->
                [text       |-> result.text,
                 confidence |-> result.confidence,
                 id         |-> data.release_id_scores[j][1],
                 score      |-> data.release_id_scores[j][2]]]])

\* lines 166 and 194
recording_stage(entry, recording_name) ==
    sorted(expand_recordings(entry,
        FuzzyIndex_search(entry.recording_index, recording_name, RECORDING_CONFIDENCE)))

release_stage(entry, release_name) ==
    sorted(expand_releases(entry,
        FuzzyIndex_search(entry.release_index, release_name, RELEASE_CONFIDENCE)))

\* lines 207-222: the top recordings crossed with the top releases, recording
\* first, a pair kept if the recording is a key of recording_releases
combine(entry, rec_results, rel_results) ==
    LET recs == FirstN(rec_results, TOP_N)
        rels == FirstN(rel_results, TOP_N)
    IN  Flatten([i \in 1..Len(recs) |->
            IF recs[i].id \in DOMAIN entry.recording_releases
            THEN [j \in 1..Len(rels) |->
                    [recording_id   |-> recs[i].id,
                     recording_conf |-> recs[i].confidence,
                     score          |-> recs[i].score,
                     release_id     |-> rels[j].id,
                     release_conf   |-> rels[j].confidence,
                     confidence     |-> (recs[i].confidence + rels[j].confidence) \div 2]]
            ELSE <<>>])

\* What search hands back: Python's None (isNone) or a list of tuples
\* (release_id, recording_id, confidence, request id).
NoneValue   == [isNone |-> TRUE,  items |-> <<>>]
List(items) == [isNone |-> FALSE, items |-> items]

\* line 182: the first three recording candidates
top_recordings(rec_results, req) ==
    LET top == FirstN(rec_results, TOP_N)
    IN  [i \in 1..Len(top) |->
            <<top[i].release_id, top[i].id, top[i].confidence, req.id>>]

\* hits[-1] in place of hits[0]
first_hit_last(hits, req) ==
    << <<hits[Len(hits)].release_id, hits[Len(hits)].recording_id,
         hits[Len(hits)].confidence, req.id>> >>

\* line 245: the first combined hit
first_hit(hits, req) ==
    << <<hits[1].release_id, hits[1].recording_id, hits[1].confidence, req.id>> >>

Pass(kind, ret, release_queries) ==
    [kind |-> kind, ret |-> ret, release_queries |-> release_queries]

\* lines 224-245: no hit, or the first hit
pick_hit(hits, req) ==
    IF hits = <<>>
    THEN Pass("continue", NoneValue, 1)
    ELSE IF "id" \notin DOMAIN req
         THEN Pass("raise", NoneValue, 1)
         ELSE Pass("return", List(first_hit(hits, req)), 1)

\* lines 179-245, the recording candidates sorted
after_recordings(entry, req, rec_results, release_name) ==
    IF ~Truthy(release_name)
    THEN IF rec_results = <<>>
         THEN Pass("continue", NoneValue, 0)
         ELSE IF "id" \notin DOMAIN req
              THEN Pass("raise", NoneValue, 0)
              ELSE Pass("return", List(top_recordings(rec_results, req)), 0)
    ELSE pick_hit(combine(entry, rec_results, release_stage(entry, release_name)), req)

\* One pass of the loop body for a loaded artist (lines 155-245).  kind is
\* "continue", "return" or "raise" (the KeyError of req["id"]); release_queries
\* counts the release index's searches.
search_artist(entry, req, recording_name, release_name) ==
    after_recordings(entry, req, recording_stage(entry, recording_name), release_name)

\* What the call returns when the loop ends with no candidate left: the
\* function has no return statement after the loop.
after_loop == NoneValue

\* The result of search on the cache `data`:
\*   kind             "return" or "raise"
\*   looked_up        the artists handed to load_artist, in order
\*   reads            the artists the row store was queried for, in order
\*   not_found        the artists load_artist returned None for
\*   release_queries  the release index searches made
Outcome(kind, ret, data, looked_up, reads, not_found, release_queries) ==
    [kind |-> kind, ret |-> ret, artist_data |-> data, looked_up |-> looked_up,
     reads |-> reads, not_found |-> not_found, release_queries |-> release_queries]

\* the pass over artist_id, then the rest of the loop, as one outcome
Then(artist_id, loaded, pass, rest) ==
    Outcome(rest.kind, rest.ret, rest.artist_data,
            <<artist_id>> \o rest.looked_up,
            (IF loaded.reads = 1 THEN <<artist_id>> ELSE <<>>) \o rest.reads,
            (IF loaded.ret = <<>> THEN {artist_id} ELSE {}) \cup rest.not_found,
            pass.release_queries + rest.release_queries)

\* the pass over one candidate (lines 150-245), given what load_artist returned
pass_over(req, loaded) ==
    IF loaded.ret = <<>>
    THEN Pass("continue", NoneValue, 0)
    ELSE search_artist(loaded.ret[1], req,
                       encode_string(req.recording_name),
                       encode_string(req.release_name))

RECURSIVE search_loop(_, _, _)

\* the loop without its return statements: a result is kept and the loop goes
\* on, a later result replacing it
after_pass_no_return(req, i, loaded, pass) ==
    Then(req.artist_ids[i], loaded, pass,
         IF pass.kind = "raise"
         THEN Outcome(pass.kind, pass.ret, loaded.artist_data, <<>>, <<>>, {}, 0)
         ELSE LET rest == search_loop(loaded.artist_data, req, i + 1)
              IN  IF pass.kind = "return" /\ rest.kind = "return" /\ rest.ret.isNone
                  THEN [rest EXCEPT !.ret = pass.ret]
                  ELSE rest)

\* "continue" goes on with the next candidate; "return" and "raise" leave the loop
after_pass(req, i, loaded, pass) ==
    Then(req.artist_ids[i], loaded, pass,
         IF pass.kind = "continue"
         THEN search_loop(loaded.artist_data, req, i + 1)
         ELSE Outcome(pass.kind, pass.ret, loaded.artist_data, <<>>, <<>>, {}, 0))

\* lines 150-153: None from load_artist skips the candidate
after_load(req, i, loaded) ==
    after_pass(req, i, loaded, pass_over(req, loaded))

\* The loop of lines 149-245 from position i of artist_ids, on the cache `data`.
search_loop(data, req, i) ==
    IF i > Len(req.artist_ids)
    THEN Outcome("return", after_loop, data, <<>>, <<>>, {}, 0)
    ELSE after_load(req, i, load_artist(data, req.artist_ids[i]))

\* The fields search reads before the loop (lines 135-138).
SearchFields == {"artist_ids", "artist_name", "release_name", "recording_name"}

\* search(req) on the cache `data`: a KeyError when a field is missing
search(data, req) ==
    IF ~(SearchFields \subseteq DOMAIN req)
    THEN Outcome("raise", NoneValue, data, <<>>, <<>>, {}, 0)
    ELSE search_loop(data, req, 1)

\* ----------------------------------------------------------------- requests
Request(artist_ids, recording_name, release_name) ==
    [artist_ids |-> artist_ids, artist_name |-> War,
     release_name |-> release_name, recording_name |-> recording_name]

\* What callers send, the id left out: it is given when the request is put.
WellFormed ==
    { Request(<<1>>,       War, None),
      Request(<<4, 1, 2>>, War, War),
      Request(<<3, 1, 2>>, Arm, Bang),
      Request(<<4, 1>>,    Xyz, War) }

WithId(r, id) == [artist_ids |-> r.artist_ids, artist_name |-> r.artist_name,
                  release_name |-> r.release_name,
                  recording_name |-> r.recording_name, id |-> id]

\* Requests with a field missing: no artist_ids; no id and a candidate that
\* yields a result; no id and no candidate that yields one.
NoArtistIds(id) == [artist_name |-> War, release_name |-> War,
                    recording_name |-> War, id |-> id]

NoId == { Request(<<1>>, War, None), Request(<<4>>, War, None) }

Messages(id) ==
    {WithId(r, id) : r \in WellFormed} \cup {NoArtistIds(id)} \cup NoId

ExitMessage == [exit |-> TRUE]
NoRequest   == [idle |-> TRUE]

RequiredFields == SearchFields \cup {"id"}
Malformed(r)   == ~(RequiredFields \subseteq DOMAIN r)

\* -------------------------------------------------------------------- state
Workers == 1..NumWorkers
Ids     == 1..MaxRequests

VARIABLES
    in_q,          \* the shared request queue, oldest first
    out_d,         \* the shared output store: request id -> (ret, id)
    pc,            \* per worker: "ready", "processing", "stopped", "failed"
    req,           \* per worker: the request in hand
    ret,           \* per worker: what search returned
    artist_data,   \* per worker: MappingLookupSearch.artist_data, the cache
    puts,          \* requests put so far (the next request id is puts + 1)
    exits,         \* exit messages put so far
    none_seen,     \* per worker: artists load_artist has returned None for
    log,           \* per worker: the trace of the search made for the request in hand
    writes,        \* per request id: writes made to out_d
    got_by         \* per request id: the workers that dequeued it

\* A FuzzyIndex of src/fuzzy_index.py and the calls made on it
VARIABLES
    fz,            \* the FuzzyIndex object
    fz_call,       \* the last search call: the object as called, arguments, outcome
    enc            \* the last encode_string call: argument and result

\* The shard plan of a MappingLookupSearch
VARIABLES
    shard_histogram,   \* the histogram, its items in insertion order
    num_shards,        \* self.num_shards
    shards             \* self.shards: <<>> for None, else <<the dict>>

\* MappingLookup.create_indexes and its batch threads
VARIABLES
    have_nmslib,            \* the module's have_nmslib
    csv_rows,               \* the data rows of the csv file, grouped by artist
    row_i,                  \* i of the row read next (row 0 is the header)
    last_artist_credit_id,
    last_row,
    recording_data,
    thread_data,
    futures,                \* the batches submitted, in order: data, state, results
    recording_indexes,      \* self.recording_indexes
    ml_artist_data,         \* self.artist_data of MappingLookup
    merge_order,            \* the batches in the order as_completed yielded them
    bulk_pc                 \* "idle", "reading", "done", "failed"

worker_vars == <<in_q, out_d, pc, req, ret, artist_data, puts, exits,
                 none_seen, log, writes, got_by>>
index_vars  == <<fz, fz_call, enc>>
plan_vars   == <<shard_histogram, num_shards, shards>>
bulk_vars   == <<have_nmslib, csv_rows, row_i, last_artist_credit_id, last_row,
                 recording_data, thread_data, futures, recording_indexes,
                 ml_artist_data, merge_order, bulk_pc>>

\* what the worker processes never touch
offline_vars == <<index_vars, plan_vars, bulk_vars>>

vars == <<worker_vars, offline_vars>>

NoCall == [self |-> fuzzy_index_init(TRUE), query_string |-> None, kwargs |-> <<>>,
           raised |-> "", output |-> <<>>, called |-> FALSE]
NoText == [text |-> None, encoded |-> None]
NoRow  == [id |-> 0, artist_credit_id |-> -1, artist_credit_name |-> None,
           recording_name |-> None]

NoLog == [looked_up |-> <<>>, reads |-> <<>>, release_queries |-> 0,
          cache_before |-> {}, none_before |-> {}]

Init ==
    /\ in_q = <<>>
    /\ out_d = <<>>
    /\ pc = [w \in Workers |-> "ready"]
    /\ req = [w \in Workers |-> NoRequest]
    /\ ret = [w \in Workers |-> NoneValue]
    /\ artist_data = [w \in Workers |-> <<>>]
    /\ puts = 0
    /\ exits = 0
    /\ none_seen = [w \in Workers |-> {}]
    /\ log = [w \in Workers |-> NoLog]
    /\ writes = [i \in Ids |-> 0]
    /\ got_by = [i \in Ids |-> {}]
    /\ fz = fuzzy_index_init(TRUE)
    /\ fz_call = NoCall
    /\ enc = NoText
    /\ shard_histogram = <<>>
    /\ num_shards = 1
    /\ shards = <<>>
    /\ have_nmslib = TRUE
    /\ csv_rows = <<>>
    /\ row_i = 1
    /\ last_artist_credit_id = -1
    /\ last_row = NoRow
    /\ recording_data = <<>>
    /\ thread_data = <<>>
    /\ futures = <<>>
    /\ recording_indexes = <<>>
    /\ ml_artist_data = <<>>
    /\ merge_order = <<>>
    /\ bulk_pc = "idle"

\* ------------------------------------------------------------------ callers
\* in_q.put(request), the id fresh
Put ==
    /\ puts < MaxRequests
    /\ \E m \in Messages(puts + 1) : in_q' = Append(in_q, m)
    /\ puts' = puts + 1
    /\ UNCHANGED offline_vars
    /\ UNCHANGED <<out_d, pc, req, ret, artist_data, exits,
                   none_seen, log, writes, got_by>>

\* in_q.put({"exit": ...})
PutExit ==
    /\ exits < MaxExits
    /\ in_q' = Append(in_q, ExitMessage)
    /\ exits' = exits + 1
    /\ UNCHANGED offline_vars
    /\ UNCHANGED <<out_d, pc, req, ret, artist_data, puts,
                   none_seen, log, writes, got_by>>

\* --------------------------------------------------- mapping_lookup_process
\* the exit message taken and the loop carried on
GetExit_continue(w) ==
    /\ pc[w] = "ready"
    /\ in_q # <<>>
    /\ "exit" \in DOMAIN Head(in_q)
    /\ in_q' = Tail(in_q)
    /\ UNCHANGED offline_vars
    /\ UNCHANGED <<out_d, pc, req, ret, artist_data, puts, exits,
                   none_seen, log, writes, got_by>>

\* req = in_q.get(); "exit" in req: return
GetExit(w) ==
    /\ pc[w] = "ready"
    /\ in_q # <<>>
    /\ "exit" \in DOMAIN Head(in_q)
    /\ in_q' = Tail(in_q)
    /\ pc' = [pc EXCEPT ![w] = "stopped"]
    /\ UNCHANGED offline_vars
    /\ UNCHANGED <<out_d, req, ret, artist_data, puts, exits,
                   none_seen, log, writes, got_by>>

\* the head of the queue read and left on the queue
Dequeued_peek(w) ==
    /\ pc[w] = "ready"
    /\ in_q # <<>>
    /\ "exit" \notin DOMAIN Head(in_q)
    /\ in_q' = in_q
    /\ req' = [req EXCEPT ![w] = Head(in_q)]
    /\ got_by' = IF "id" \in DOMAIN Head(in_q)
                 THEN [got_by EXCEPT ![Head(in_q).id] = @ \cup {w}]
                 ELSE got_by

\* req = in_q.get(), "exit" not in req
Dequeued(w) ==
    /\ pc[w] = "ready"
    /\ in_q # <<>>
    /\ "exit" \notin DOMAIN Head(in_q)
    /\ in_q' = Tail(in_q)
    /\ req' = [req EXCEPT ![w] = Head(in_q)]
    /\ got_by' = IF "id" \in DOMAIN Head(in_q)
                 THEN [got_by EXCEPT ![Head(in_q).id] = @ \cup {w}]
                 ELSE got_by

\* what a call of ms.search(req) leaves behind, whether it returns or raises
Searched(w, r) ==
    /\ artist_data' = [artist_data EXCEPT ![w] = r.artist_data]
    /\ none_seen' = [none_seen EXCEPT ![w] = @ \cup r.not_found]
    /\ log' = [log EXCEPT ![w] = [looked_up       |-> r.looked_up,
                                  reads           |-> r.reads,
                                  release_queries |-> r.release_queries,
                                  cache_before    |-> DOMAIN artist_data[w],
                                  none_before     |-> none_seen[w]]]

\* the call returned
Returned(w, r) ==
    /\ r.kind = "return"
    /\ Searched(w, r)
    /\ ret' = [ret EXCEPT ![w] = r.ret]

\* the call raised
Raised(w, r) ==
    /\ r.kind = "raise"
    /\ Searched(w, r)

\* Lines 12-19 for a request: it is dequeued and ret = ms.search(req) returns.
\* The search reads and writes nothing that another process writes, so it is
\* one step with the dequeue.
Process(w) ==
    /\ Dequeued(w)
    /\ Returned(w, search(artist_data[w], Head(in_q)))
    /\ pc' = [pc EXCEPT ![w] = "processing"]
    /\ UNCHANGED offline_vars
    /\ UNCHANGED <<out_d, puts, exits, writes>>

\* Lines 12-19 for a request whose search raises KeyError: nothing catches it,
\* the process ends.  Only a request that lacks a key can raise it.
ProcessRaises(w) ==
    /\ Dequeued(w)
    /\ Malformed(Head(in_q))
    /\ Raised(w, search(artist_data[w], Head(in_q)))
    /\ pc' = [pc EXCEPT ![w] = "failed"]
    /\ UNCHANGED offline_vars
    /\ UNCHANGED <<out_d, ret, puts, exits, writes>>

\* out_d[req["id"]] = (ret, elapsed, req["id"]); the elapsed time is left out
Publish(w) ==
    /\ pc[w] = "processing"
    /\ "id" \in DOMAIN req[w]
    /\ out_d' = (req[w].id :> <<ret[w], req[w].id>>) @@ out_d
    /\ writes' = [writes EXCEPT ![req[w].id] = @ + 1]
    /\ pc' = [pc EXCEPT ![w] = "ready"]
    /\ req' = [req EXCEPT ![w] = NoRequest]
    /\ ret' = [ret EXCEPT ![w] = NoneValue]
    /\ log' = [log EXCEPT ![w] = NoLog]
    /\ UNCHANGED offline_vars
    /\ UNCHANGED <<in_q, artist_data, puts, exits, none_seen, got_by>>

\* out_d[req["id"]] = ..., raising KeyError: the process ends
PublishRaises(w) ==
    /\ pc[w] = "processing"
    /\ "id" \notin DOMAIN req[w]
    /\ pc' = [pc EXCEPT ![w] = "failed"]
    /\ UNCHANGED offline_vars
    /\ UNCHANGED <<in_q, out_d, req, ret, artist_data, puts, exits,
                   none_seen, log, writes, got_by>>

Next ==
    \/ Put
    \/ PutExit
    \/ \E w \in Workers : GetExit(w)
    \/ \E w \in Workers : Process(w)
    \/ \E w \in Workers : ProcessRaises(w)
    \/ \E w \in Workers : Publish(w)
    \/ \E w \in Workers : PublishRaises(w)

Spec == Init /\ [][Next]_vars

\* ------------------------------------------------------------------ shutdown
\* Callers that follow the shutdown protocol: ordinary requests, which carry
\* every field, then one exit message per worker and nothing after them.
PutOrdinary ==
    /\ exits = 0
    /\ puts < MaxRequests
    /\ \E r \in WellFormed : in_q' = Append(in_q, WithId(r, puts + 1))
    /\ puts' = puts + 1
    /\ UNCHANGED offline_vars
    /\ UNCHANGED <<out_d, pc, req, ret, artist_data, exits,
                   none_seen, log, writes, got_by>>

PutWorkerExit ==
    /\ exits < NumWorkers
    /\ in_q' = Append(in_q, ExitMessage)
    /\ exits' = exits + 1
    /\ UNCHANGED offline_vars
    /\ UNCHANGED <<out_d, pc, req, ret, artist_data, puts,
                   none_seen, log, writes, got_by>>

\* Worker w takes the request at the head of the queue and sets to work on
\* it.  A search of an ordinary request ends and does not raise, so a step of
\* the workers that does this is the step Process(w).
Takes(w) ==
    /\ Dequeued(w)
    /\ pc' = [pc EXCEPT ![w] = "processing"]

\* one turn of the loop of mapping_lookup_process: each moves pc[w]
WorkerStep(w) == GetExit(w) \/ Takes(w) \/ Publish(w)

ShutdownNext ==
    \/ PutOrdinary
    \/ PutWorkerExit
    \/ \E w \in Workers : GetExit(w)
    \/ \E w \in Workers : Process(w)
    \/ \E w \in Workers : Publish(w)

\* Every worker is a process of its own that the operating system keeps
\* scheduling: a worker that can take a turn of its loop takes it.  in_q.get()
\* blocks on an empty queue, and a search ends.  Nothing makes the callers put.
ShutdownSpec ==
    /\ Init
    /\ [][ShutdownNext]_vars
    /\ \A w \in Workers : WF_pc(WorkerStep(w))

\* ------------------------------------------------------------ create_indexes
\* The csv files: up to MaxRows rows grouped by artist, the artists numbered
\* from 1, each recording name either indexable or empty once encoded.
CsvRow(id, ac, rec_name) ==
    [id |-> id, artist_credit_id |-> ac, artist_credit_name |-> War,
     recording_name |-> rec_name]

Grouped(n) ==
    {ac \in [1..n -> 1..n] :
        /\ n >= 1 => ac[1] = 1
        /\ \A j \in 1..(n - 1) : ac[j + 1] \in {ac[j], ac[j] + 1}}

Datasets ==
    UNION {{[j \in 1..n |-> CsvRow(j, ac[j], names[j])] :
                ac \in Grouped(n), names \in [1..n -> {War, Bang}]} : n \in 0..MaxRows}

\* the values of a dict keyed by artist_credit_id, in key order
RECURSIVE dict_values(_)
dict_values(d) ==
    IF DOMAIN d = {} THEN <<>>
    ELSE LET k == CHOOSE k \in DOMAIN d : \A j \in DOMAIN d : k <= j
         IN  <<d[k]>> \o dict_values([j \in DOMAIN d \ {k} |-> d[j]])

\* create_indexes is called: lines 125-139
OpenCsv ==
    /\ bulk_pc = "idle"
    /\ bulk_pc' = "reading"
    /\ csv_rows' \in Datasets
    /\ have_nmslib' \in BOOLEAN
    /\ UNCHANGED <<row_i, last_artist_credit_id, last_row, recording_data, thread_data,
                   futures, recording_indexes, ml_artist_data, merge_order>>
    /\ UNCHANGED <<worker_vars, index_vars, plan_vars>>

\* lines 163-166: at a chunk boundary the batch is submitted
Batched(i, data) ==
    IF chunk_full(i)
    THEN /\ futures' = Append(futures, [thread_data |-> data, state |-> "running",
                                        results |-> <<>>])
         /\ thread_data' = after_submit(data)
    ELSE /\ thread_data' = data
         /\ UNCHANGED futures

\* lines 145-166 for row i
Read(row, i, changed) ==
    /\ ml_artist_data' =
          IF changed
          THEN (last_row.artist_credit_id :>
                   <<encode_string(last_row.artist_credit_name), last_row.artist_credit_id>>)
               @@ ml_artist_data
          ELSE ml_artist_data
    /\ recording_data' = with_recording(IF changed THEN <<>> ELSE recording_data, row)
    /\ Batched(i, IF changed
                  THEN Append(thread_data, <<last_artist_credit_id, recording_data>>)
                  ELSE thread_data)
    /\ last_row' = row
    /\ last_artist_credit_id' = row.artist_credit_id
    /\ row_i' = i + 1

\* one pass of the loop of line 140
ReadRow ==
    /\ bulk_pc = "reading"
    /\ row_i <= Len(csv_rows)
    /\ Read(csv_rows[row_i], row_i, artist_changed(last_artist_credit_id, csv_rows[row_i]))
    /\ UNCHANGED <<have_nmslib, csv_rows, recording_indexes, merge_order, bulk_pc>>
    /\ UNCHANGED <<worker_vars, index_vars, plan_vars>>

\* a thread of the pool runs build_index(thread_data) to its end
RunBatch(f) ==
    /\ futures[f].state = "running"
    /\ futures' = [futures EXCEPT ![f] =
                      [thread_data |-> futures[f].thread_data,
                       state       |-> "done",
                       results     |-> build_index(have_nmslib, futures[f].thread_data)]]
    /\ UNCHANGED <<have_nmslib, csv_rows, row_i, last_artist_credit_id, last_row,
                   recording_data, thread_data, recording_indexes, ml_artist_data,
                   merge_order, bulk_pc>>
    /\ UNCHANGED <<worker_vars, index_vars, plan_vars>>

\* lines 168-172: after the last row, as_completed yields a finished batch and
\* its results are merged
MergeBatch(f) ==
    /\ bulk_pc = "reading"
    /\ row_i > Len(csv_rows)
    /\ futures[f].state = "done"
    /\ recording_indexes' = merge_results(recording_indexes, futures[f].results)
    /\ futures' = [futures EXCEPT ![f] = [@ EXCEPT !.state = "merged"]]
    /\ merge_order' = Append(merge_order, f)
    /\ UNCHANGED <<have_nmslib, csv_rows, row_i, last_artist_credit_id, last_row,
                   recording_data, thread_data, ml_artist_data, bulk_pc>>
    /\ UNCHANGED <<worker_vars, index_vars, plan_vars>>

\* lines 177-178: every batch is merged, the artist index is built
Finish ==
    /\ bulk_pc = "reading"
    /\ row_i > Len(csv_rows)
    /\ \A f \in 1..Len(futures) : futures[f].state = "merged"
    /\ bulk_pc' = IF build_raises(fuzzy_index_init(have_nmslib), dict_values(ml_artist_data))
                  THEN "failed"
                  ELSE "done"
    /\ UNCHANGED <<have_nmslib, csv_rows, row_i, last_artist_credit_id, last_row,
                   recording_data, thread_data, futures, recording_indexes,
                   ml_artist_data, merge_order>>
    /\ UNCHANGED <<worker_vars, index_vars, plan_vars>>

BulkNext ==
    \/ OpenCsv
    \/ ReadRow
    \/ \E f \in 1..Len(futures) : RunBatch(f)
    \/ \E f \in 1..Len(futures) : MergeBatch(f)
    \/ Finish

BulkSpec == Init /\ [][BulkNext]_vars

\* --------------------------------------------------- the shards of the workers
\* shard_histogram for the Mapping table: artist_credit_id -> number of rows
MappingHistogram ==
    LET ids == Keys([i \in 1..Len(Mapping) |-> Mapping[i].artist_credit_id])
    IN  [i \in 1..Len(ids) |-> <<ids[i], Len(Mapping_select(ids[i]))>>]

\* the plan for one shard per worker process; worker w has shard w - 1
MappingShards == split_shards(MappingHistogram, NumWorkers)
ShardOfWorker(w) == w - 1

\* ------------------------------------------ FuzzyIndex and encode_string calls
\* Search data as callers pass it to build: (value, lookup_id) pairs of encoded,
\* non-empty texts.
SearchData ==
    { << <<encode_string(War), 0>> >>,
      << <<encode_string(War), 0>>, <<encode_string(Wars), 1>> >>,
      << <<encode_string(Wa), 0>>, <<encode_string(Warm), 1>>, <<encode_string(Arm), 2>>,
         <<encode_string(Wars), 3>> >> }

Queries == {encode_string(War), encode_string(Arm), encode_string(Xyz)}

\* the keyword arguments of a search call: none, or min_confidence as
\* search_index.py passes it
NoKwargs == <<>>
Kwargs   == {NoKwargs, [min_confidence |-> RECORDING_CONFIDENCE]}

\* Texts given to encode_string
Texts == {None, <<>>, War, WarX, W_ar, Wars, Bang, Cafe, Beijing, Pinyin}

\* FuzzyIndex()
Construct ==
    /\ \E nmslib \in BOOLEAN : fz' = fuzzy_index_init(nmslib)
    /\ fz_call' = NoCall
    /\ UNCHANGED <<enc, worker_vars, plan_vars, bulk_vars>>

\* fz.build(search_data)
Build ==
    /\ \E search_data \in SearchData : fz' = fuzzy_index_build(fz, search_data)
    /\ UNCHANGED <<fz_call, enc, worker_vars, plan_vars, bulk_vars>>

Called(query_string, kwargs, outcome) ==
    fz_call' = [self |-> fz, query_string |-> query_string, kwargs |-> kwargs,
                raised |-> outcome.raised, output |-> outcome.output, called |-> TRUE]

\* fz.search(query_string, **kwargs)
Query ==
    /\ \E query_string \in Queries, kwargs \in Kwargs :
          Called(query_string, kwargs, fuzzy_index_search(fz, query_string, kwargs))
    /\ UNCHANGED <<fz, enc, worker_vars, plan_vars, bulk_vars>>

\* FuzzyIndex.encode_string(text)
Encode ==
    /\ \E text \in Texts : enc' = [text |-> text, encoded |-> encode_string(text)]
    /\ UNCHANGED <<fz, fz_call, worker_vars, plan_vars, bulk_vars>>

IndexNext ==
    \/ Construct
    \/ Build
    \/ Query
    \/ Encode

IndexSpec == Init /\ [][IndexNext]_vars

\* =================================================================== claims
\* A worker that has searched for a request with every field and has not yet
\* written the result.
Searching(w) == pc[w] = "processing" /\ ~Malformed(req[w])

RecordingName(w) == encode_string(req[w].recording_name)
ReleaseName(w)   == encode_string(req[w].release_name)

\* What one candidate artist yields for a request of worker w
Produces(w, artist_id, r) ==
    pass_over(r, load_artist(artist_data[w], artist_id))

\* the artist the search stopped at
LastLookedUp(w) == log[w].looked_up[Len(log[w].looked_up)]

Occurrences(s, x) == Cardinality({i \in 1..Len(s) : s[i] = x})

Min(a, b) == IF a < b THEN a ELSE b

\* the last candidate looked up yields `last`
C1_Stops(w, ids, n, last) ==
    /\ last.kind = "return" => ret[w] = last.ret
    /\ last.kind = "continue" => n = Len(ids)

C1_Order(w, ids, seen, n) ==
    /\ n <= Len(ids)
    /\ seen = SubSeq(ids, 1, n)
    /\ \A j \in 1..(n - 1) : Produces(w, ids[j], req[w]).kind = "continue"
    /\ n >= 1 => C1_Stops(w, ids, n, Produces(w, ids[n], req[w]))
    /\ n = 0 => ids = <<>>
    /\ (DOMAIN artist_data[w]) \ log[w].cache_before \subseteq Range(seen)
    /\ Range(log[w].reads) \subseteq Range(seen)

TopRecordings(w) ==
    FirstN(recording_stage(artist_data[w][LastLookedUp(w)], RecordingName(w)), TOP_N)
TopReleases(w) ==
    FirstN(release_stage(artist_data[w][LastLookedUp(w)], ReleaseName(w)), TOP_N)

\* the kept pairs, as positions in the two lists
KeptPairs(entry, recs, rels) ==
    {p \in (1..Len(recs)) \X (1..Len(rels)) :
        recs[p[1]].id \in DOMAIN entry.recording_releases}

Mean(recs, rels, p) == (recs[p[1]].confidence + rels[p[2]].confidence) \div 2

Earlier(p, q) == p[1] < q[1] \/ (p[1] = q[1] /\ p[2] < q[2])

C2_Best(w, recs, rels, kept) ==
    kept # {} =>
        /\ ~ret[w].isNone
        /\ Len(ret[w].items) = 1
        /\ \E p \in kept :
              /\ ret[w].items[1] =
                    <<rels[p[2]].id, recs[p[1]].id, Mean(recs, rels, p), req[w].id>>
              /\ \A q \in kept : Mean(recs, rels, q) <= Mean(recs, rels, p)
              /\ \A q \in kept : Mean(recs, rels, q) = Mean(recs, rels, p) => ~Earlier(q, p)

C2_Pairs(w, recs, rels) ==
    C2_Best(w, recs, rels, KeptPairs(artist_data[w][LastLookedUp(w)], recs, rels))

C2_Stopped(w) ==
    /\ Searching(w)
    /\ Truthy(ReleaseName(w))
    /\ log[w].looked_up # <<>>
    /\ LastLookedUp(w) \in DOMAIN artist_data[w]

C2_Varied(recs, rels, kept) ==
    /\ \E p, q \in kept : Mean(recs, rels, p) < Mean(recs, rels, q)
    /\ \E p, q \in kept :
          /\ p # q
          /\ Mean(recs, rels, p) = Mean(recs, rels, q)
          /\ \A o \in kept : Mean(recs, rels, o) <= Mean(recs, rels, p)

C2_VariedPairs(w, recs, rels) ==
    C2_Varied(recs, rels, KeptPairs(artist_data[w][LastLookedUp(w)], recs, rels))

Expanded(w) ==
    expand_recordings(artist_data[w][LastLookedUp(w)],
        FuzzyIndex_search(artist_data[w][LastLookedUp(w)].recording_index,
                          RecordingName(w), RECORDING_CONFIDENCE))
Sorted(w) == recording_stage(artist_data[w][LastLookedUp(w)], RecordingName(w))

C3_Result(w, cands, recs, items) ==
    /\ Len(cands) >= 1
    /\ Len(items) = Min(3, Len(cands))
    /\ Len(recs) = Len(cands)
    /\ \A x \in Range(cands) : Occurrences(recs, x) = Occurrences(cands, x)
    /\ \A k, l \in 1..Len(recs) : k < l =>
          \/ recs[k].confidence > recs[l].confidence
          \/ recs[k].confidence = recs[l].confidence /\ recs[k].score <= recs[l].score
    /\ \A k \in 1..Len(items) :
          /\ items[k] = <<recs[k].release_id, recs[k].id, recs[k].confidence, req[w].id>>
          /\ \E i \in 1..Len(Mapping) :
                /\ Mapping[i].artist_credit_id = LastLookedUp(w)
                /\ Mapping[i].recording_id = recs[k].id
                /\ Mapping[i].release_id = recs[k].release_id
                /\ Mapping[i].score = recs[k].score
    /\ \A j \in 1..(Len(log[w].looked_up) - 1) :
          \/ log[w].looked_up[j] \notin DOMAIN artist_data[w]
          \/ recording_stage(artist_data[w][log[w].looked_up[j]], RecordingName(w)) = <<>>

C3_Ties(cands) ==
    /\ Len(cands) > 3
    /\ \E k, l \in 1..Len(cands) :
          /\ k < l
          /\ cands[k].confidence = cands[l].confidence
          /\ cands[k].score > cands[l].score

C4_EmptyWhenExhausted ==
    \A w \in Workers :
        ( /\ Searching(w)
          /\ \A j \in 1..Len(req[w].artist_ids) :
                Produces(w, req[w].artist_ids[j], req[w]).kind = "continue" ) =>
        ret[w] = List(<<>>)

\* a step in which worker w calls search
Searches(w) == pc[w] = "ready" /\ pc'[w] \in {"processing", "failed"}

C6_NotFoundMemoized ==
    \A w \in Workers : \A a \in log[w].none_before : a \notin Range(log[w].reads)

\* C7: a stopped worker stays stopped, dequeues nothing, searches nothing and
\* writes nothing; and a worker leaves ready/processing only by dequeuing an
\* exit message.
C7_ExitOnlyWayOut ==
    [][\A w \in Workers :
          /\ pc[w] = "stopped" =>
                /\ pc'[w] = "stopped"
                /\ req'[w] = req[w] /\ ret'[w] = ret[w]
                /\ artist_data'[w] = artist_data[w] /\ log'[w] = log[w]
                /\ \A i \in Ids : w \in got_by'[i] => w \in got_by[i]
          /\ (pc[w] \in {"ready", "processing"} /\ pc'[w] \notin {"ready", "processing"}) =>
                /\ pc'[w] = "stopped"
                /\ in_q # <<>>
                /\ Head(in_q) = ExitMessage
                /\ in_q' = Tail(in_q)]_vars

\* C8: every request a worker has dequeued and is no longer working on has
\* exactly one entry in the output store; the one it is working on has none yet.
C8_OneWritePerRequest ==
    \A i \in Ids : \A w \in got_by[i] :
        IF pc[w] = "processing" /\ req[w].id = i
        THEN writes[i] = 0 /\ i \notin DOMAIN out_d
        ELSE writes[i] = 1 /\ i \in DOMAIN out_d

\* C9: no request is dequeued by two workers and no request id is written
\* twice; an entry of the output store is the one write of the one worker that
\* dequeued the request.
C9_OneWorkerOneWrite ==
    \A i \in Ids :
        /\ Cardinality(got_by[i]) <= 1
        /\ writes[i] <= 1
        /\ writes[i] = 1 <=> i \in DOMAIN out_d
        /\ i \in DOMAIN out_d => got_by[i] # {} /\ out_d[i][2] = i

\* C9 witness: two workers have each dequeued a request of their own and both
\* results are in the output store.
C9_Witness ==
    \E i, j \in Ids :
        /\ i # j
        /\ got_by[i] # {} /\ got_by[j] # {} /\ got_by[i] # got_by[j]
        /\ writes[i] = 1 /\ writes[j] = 1

\* C10: a request with a field missing leaves the worker's cache as it was and
\* the worker in its cycle.
C10_MalformedRejected ==
    \A w \in Workers :
        (req[w] # NoRequest /\ Malformed(req[w])) =>
            /\ pc[w] # "failed"
            /\ DOMAIN artist_data[w] = log[w].cache_before

\* ------------------------------------------------------------ shard planning
RowCounts == {1, 2, 3}

\* the histograms over artists 1..n: every row count, the keys inserted in
\* ascending or in descending order
HistogramOf(n, counts, ascending) ==
    [i \in 1..n |-> IF ascending THEN <<i, counts[i]>>
                                 ELSE <<n + 1 - i, counts[n + 1 - i]>>]

Histograms ==
    UNION {{HistogramOf(n, counts, ascending) :
                counts \in [1..n -> RowCounts], ascending \in BOOLEAN} : n \in 0..MaxArtists}

\* MappingLookupSearch(index_dir, num_shards), the histogram module imported:
\* once per process, before anything else
NewPlanner ==
    /\ shard_histogram = <<>>
    /\ shards = <<>>
    /\ shard_histogram' \in Histograms
    /\ num_shards' \in 1..MaxShards
    /\ shards' = <<>>
    /\ UNCHANGED <<worker_vars, index_vars, bulk_vars>>

\* ms.split_shards()
SplitShards ==
    /\ shards' = <<split_shards(shard_histogram, num_shards)>>
    /\ UNCHANGED <<shard_histogram, num_shards, worker_vars, index_vars, bulk_vars>>

PlanNext ==
    \/ NewPlanner
    \/ SplitShards

PlanSpec == Init /\ [][PlanNext]_vars

\* ------------------------------------------------- claims on the cache entries
\* every recording id of every recording group of the entry
GroupedRecordings(entry) ==
    UNION {{entry.recording_data[g].recording_data[k].id :
                k \in 1..Len(entry.recording_data[g].recording_data)} :
            g \in 1..Len(entry.recording_data)}

C19_Hits(recs, rels, hits) ==
    /\ hits # <<>> <=> (recs # <<>> /\ rels # <<>>)
    /\ Len(hits) = Len(recs) * Len(rels)

C19_Combined(entry, recs, rels) == C19_Hits(recs, rels, combine(entry, recs, rels))

NoEntryFor(a) ==
    \A i \in 1..Len(Mapping) :
        Mapping[i].artist_credit_id = a => ~Truthy(encode_string(Mapping[i].release_name))

\* the groups have distinct texts and ids 0, 1, 2, ... in list order
Numbered(groups) ==
    /\ \A g \in 1..Len(groups) : groups[g].id = g - 1
    /\ \A g, h \in 1..Len(groups) : g # h => groups[g].text # groups[h].text

PlannedArtists(r) ==
    IF "artist_ids" \in DOMAIN r THEN Range(r.artist_ids) \cap DOMAIN MappingShards ELSE {}

\* C16: a worker only has a request in hand whose artists are of its own shard,
\* and only caches entries of artists of its own shard.
C16_ShardAffinity ==
    \A w \in Workers :
        /\ \A a \in PlannedArtists(req[w]) : MappingShards[a] = ShardOfWorker(w)
        /\ \A a \in DOMAIN artist_data[w] : MappingShards[a] = ShardOfWorker(w)

\* ------------------------------------------- claims on bulk index construction
\* every batch has completed and has been merged
AllMerged == bulk_pc \in {"done", "failed"}

\* the artists with at least one row whose encoded recording name is not empty
Indexable(rows) ==
    {rows[j].artist_credit_id :
        j \in {j \in 1..Len(rows) : Truthy(encode_string(rows[j].recording_name))}}

BatchKeys(f)  == {futures[f].thread_data[k][1] : k \in 1..Len(futures[f].thread_data)}
ResultKeys(f) == {futures[f].results[k][1] : k \in 1..Len(futures[f].results)}

\* C17: once every batch is merged, every artist with an indexable row was in
\* exactly one submitted batch and the mapping has an index for exactly these
\* artists.
C17_EveryArtistIndexed ==
    AllMerged =>
        /\ \A a \in Indexable(csv_rows) :
              Cardinality({f \in 1..Len(futures) : a \in BatchKeys(f)}) = 1
        /\ DOMAIN recording_indexes = Indexable(csv_rows)

Merged == {f \in 1..Len(futures) : futures[f].state = "merged"}

\* C18: the artist keys of different batches are disjoint, and the mapping is
\* the union of the results of the batches merged so far, whatever the order
\* they were merged in: no merge has replaced the index of an earlier one.
C18_DisjointBatches ==
    /\ \A f, g \in 1..Len(futures) : f # g => BatchKeys(f) \cap BatchKeys(g) = {}
    /\ \A f \in 1..Len(futures) : Cardinality(BatchKeys(f)) = Len(futures[f].thread_data)
    /\ DOMAIN recording_indexes = UNION {ResultKeys(f) : f \in Merged}
    /\ \A f \in Merged : \A k \in 1..Len(futures[f].results) :
          recording_indexes[futures[f].results[k][1]] = futures[f].results[k][2]

\* C18 witness: two batches with results were merged, the second first.
C18_Witness ==
    /\ bulk_pc = "done"
    /\ merge_order = <<2, 1>>
    /\ ResultKeys(1) # {}
    /\ ResultKeys(2) # {}

\* ---------------------------------------------------- claims on the shard plan
\* the artists of a histogram and the total row_count of a set of them
ArtistsOf(histogram) == {histogram[i][1] : i \in 1..Len(histogram)}

RECURSIVE RowTotal(_, _)
RowTotal(histogram, artists) ==
    IF histogram = <<>> THEN 0
    ELSE (IF Head(histogram)[1] \in artists THEN Head(histogram)[2] ELSE 0)
         + RowTotal(Tail(histogram), artists)

ShardTotal(histogram, plan, shard) ==
    RowTotal(histogram, {a \in DOMAIN plan : plan[a] = shard})

Reversed(s) == [i \in 1..Len(s) |-> s[Len(s) + 1 - i]]

C14_Plan(histogram, n, plan, split_hist) ==
    /\ DOMAIN plan = ArtistsOf(histogram)
    /\ \A a \in DOMAIN plan : plan[a] \in 0..(n - 1)
    /\ \A a \in ArtistsOf(histogram) :
          Cardinality({s \in 1..n : a \in Range(split_hist[s])}) = 1
    /\ split_shards(Reversed(histogram), n) = plan

\* C14: the plan gives every artist of the histogram exactly one shard index in
\* [0, num_shards), and it is the same plan when the same histogram is given
\* with its items in the opposite order (row_count ties are broken by
\* artist_credit_id, not by position).
C14_TotalAndDeterministic ==
    shards # <<>> =>
        C14_Plan(shard_histogram, num_shards, shards[1],
                 split_dict_evenly(shard_histogram, num_shards))

\* C14 witness: a plan over several shards for a histogram with a row_count tie
\* whose items are not in artist order.
C14_Witness ==
    /\ shards # <<>>
    /\ num_shards >= 2
    /\ \E i, j \in 1..Len(shard_histogram) :
          /\ i < j
          /\ shard_histogram[i][2] = shard_histogram[j][2]
          /\ shard_histogram[i][1] > shard_histogram[j][1]
          /\ shards[1][shard_histogram[i][1]] # shards[1][shard_histogram[j][1]]

\* the smallest maximum shard total over every assignment of the items to the bins
RECURSIVE BestMaximum(_, _)
BestMaximum(items, totals) ==
    IF items = <<>>
    THEN CHOOSE m \in Range(totals) : \A t \in Range(totals) : t <= m
    ELSE LET each == {BestMaximum(Tail(items), [totals EXCEPT ![s] = @ + Head(items)[2]]) :
                         s \in 1..Len(totals)}
         IN  CHOOSE m \in each : \A t \in each : m <= t

\* C15 as stated: every shard total is at most 4/3 of the ideal average,
\* total / num_shards.
C15_WithinFourThirdsOfAverage ==
    shards # <<>> =>
        \A s \in 0..(num_shards - 1) :
            3 * num_shards * ShardTotal(shard_histogram, shards[1], s)
                <= 4 * RowTotal(shard_histogram, ArtistsOf(shard_histogram))

C15_Bound(histogram, n, plan, best) ==
    \A s \in 0..(n - 1) : 3 * ShardTotal(histogram, plan, s) <= 4 * best

\* C15 amended: every shard total is at most 4/3 of the smallest maximum shard
\* total that any assignment of the histogram to num_shards shards has.
C15_WithinFourThirdsOfBest ==
    shards # <<>> =>
        C15_Bound(shard_histogram, num_shards, shards[1],
                  BestMaximum(shard_histogram, [s \in 1..num_shards |-> 0]))

\* C15 witness: a plan in which a shard is over 4/3 of the ideal average.
C15_Witness ==
    /\ shards # <<>>
    /\ Len(shard_histogram) >= 3
    /\ \E s \in 0..(num_shards - 1) :
          3 * num_shards * ShardTotal(shard_histogram, shards[1], s)
              > 4 * RowTotal(shard_histogram, ArtistsOf(shard_histogram))

\* ------------------------------------------------- claims on FuzzyIndex calls
\* a search call made without keyword arguments on an index with the backend
\* available
PlainCall == fz_call.called /\ fz_call.kwargs = NoKwargs /\ fz_call.self.have_nmslib

NeverBuilt(self) == self.vectorizer = <<>>

\* C11: search on a FuzzyIndex that was constructed but never built, the
\* nearest-neighbour backend available, returns an empty sequence and raises
\* no error, whatever the query.
C11_UnbuiltSearchEmpty ==
    (PlainCall /\ NeverBuilt(fz_call.self)) =>
        (fz_call.raised = "" /\ fz_call.output = <<>>)

\* the min_confidence and k of a call, with their defaults
MinConfidenceOf(kwargs) ==
    IF "min_confidence" \in DOMAIN kwargs THEN kwargs.min_confidence ELSE 0
KOf(kwargs) == IF "k" \in DOMAIN kwargs THEN kwargs.k ELSE KNN_K

\* C12: search(query, min_confidence, k) on a built index returns at most k
\* results, each with a confidence that is non-negative and at least
\* min_confidence.
C12_AtLeastMinConfidence ==
    (fz_call.called /\ fz_call.self.have_nmslib /\ ~NeverBuilt(fz_call.self)) =>
        /\ fz_call.raised = ""
        /\ Len(fz_call.output) <= KOf(fz_call.kwargs)
        /\ \A i \in 1..Len(fz_call.output) :
              /\ fz_call.output[i].confidence >= 0
              /\ fz_call.output[i].confidence >= MinConfidenceOf(fz_call.kwargs)

\* C13: encode_string applied to its own result gives that result again.
C13_Idempotent == encode_string(enc.encoded) = enc.encoded

\* ------------------------------------------------------------------ shutdown
\* exit messages still on the queue, and those some worker has taken
ExitsLeft     == Cardinality({i \in DOMAIN in_q : "exit" \in DOMAIN in_q[i]})
ExitsConsumed == exits - ExitsLeft
Stopped       == {w \in Workers : pc[w] = "stopped"}

\* one exit message per worker has been put, after every ordinary request
AllExitsPut == exits = NumWorkers

\* every exit message taken is the one exit message of a worker it stopped
C21_OneExitEach == ExitsConsumed = Cardinality(Stopped)

C21_ShutDown ==
    /\ \A w \in Workers : pc[w] = "stopped"
    /\ in_q = <<>>
    /\ \A id \in 1..puts : id \in DOMAIN out_d /\ out_d[id][2] = id /\ writes[id] = 1

\* C21: when the callers put their ordinary requests and then one exit message
\* per worker, and the workers are scheduled fairly, every worker ends up
\* stopped for good, each worker has taken exactly one exit message, and every
\* ordinary request has its entry in the output store.
C21_ShutdownCompletes ==
    /\ []C21_OneExitEach
    /\ AllExitsPut ~> []C21_ShutDown

\* MaxRequests requests were put and served by more than one worker, the exit
\* messages followed, and everything has shut down
C21_Witness ==
    /\ AllExitsPut
    /\ puts = MaxRequests
    /\ C21_ShutDown
    /\ \E i, j \in 1..puts : got_by[i] # got_by[j]

====
